---- MODULE Spec2Model ----
(***************************************************************************)
(* Model of the Chirpy HTTP server (src/main.go): the chirp validation    *)
(* handler with its banned-word redaction, and the file-server hit        *)
(* counter with the middleware, metrics and reset handlers around it.     *)
(*                                                                         *)
(* A Go string is a sequence of bytes holding UTF-8; it is modelled as a   *)
(* sequence of runes, each rune being a one-symbol TLA+ string (or         *)
(* "U+xxxx" for a rune outside ASCII) with its UTF-8 width, so that len(), *)
(* strings.ToLower, strings.Split and unicode.IsPunct are computed as Go   *)
(* computes them.                                                          *)
(***************************************************************************)
EXTENDS Integers, Sequences, FiniteSets, TLC

\* ------------------------------------------------------------------ bounds
\* Instrumented /app/ requests whose every step is modelled.
MaxRequests == 2
\* Pieces concatenated to build the core of a chirp body.
MaxPieces == 3
\* A burst of back-to-back /app/ traffic starts only while fewer than
\* LoadCap * CountBase increments have happened since the last reset.
LoadCap == 1

\* ------------------------------------------------------- program constants
\* chirpHandler: len(params.Body) > 140
MaxChirpLength == 140
\* atomic.Int32: the largest value of the hit counter
MaxInt32 == 2147483647
MinInt32 == (-MaxInt32) - 1

\* ------------------------------------------------------------------- runes
\* Kelvin sign U+212A (3 bytes, lowercases to "k"), e-acute U+00E9 and
\* E-acute U+00C9 (2 bytes each).
RuneLen(c) ==
    CASE c \in {"U+00E9", "U+00C9"} -> 2
      [] c = "U+212A" -> 3
      [] OTHER -> 1

\* unicode.ToLower as strings.ToLower applies it, rune by rune.
ToLowerRune(c) ==
    CASE c = "A" -> "a" [] c = "B" -> "b" [] c = "E" -> "e" [] c = "F" -> "f"
      [] c = "H" -> "h" [] c = "K" -> "k" [] c = "L" -> "l" [] c = "N" -> "n"
      [] c = "O" -> "o" [] c = "R" -> "r" [] c = "S" -> "s" [] c = "T" -> "t"
      [] c = "U" -> "u" [] c = "X" -> "x"
      [] c = "U+212A" -> "k"
      [] c = "U+00C9" -> "U+00E9"
      [] OTHER -> c

\* unicode.IsPunct: categories P*; "!", "*", "." and "," are Po, "-" is Pd.
IsPunct(c) == c \in {"!", "*", ".", ",", "-"}

\* len(s) of a Go string: its number of bytes.
ByteLen(s) ==
    LET n(w) == Cardinality({i \in 1..Len(s) : RuneLen(s[i]) = w})
    IN n(1) + (2 * n(2)) + (3 * n(3)) + (4 * n(4))

\* strings.ToLower(s)
ToLower(s) == [i \in 1..Len(s) |-> ToLowerRune(s[i])]

\* strings.Index(s, " "): position of the first space, 0 when there is none.
IndexSpace(s) ==
    IF \E i \in 1..Len(s) : s[i] = " "
    THEN CHOOSE i \in 1..Len(s) :
            s[i] = " " /\ \A j \in 1..(i - 1) : s[j] # " "
    ELSE 0

\* strings.Split(s, " "): cut at every space, keeping empty pieces.
RECURSIVE Split(_)
Split(s) ==
    LET m == IndexSpace(s)
    IN IF m = 0 THEN <<s>>
       ELSE <<SubSeq(s, 1, m - 1)>> \o Split(SubSeq(s, m + 1, Len(s)))

\* strings.Join(words, " ")
RECURSIVE Join(_)
Join(words) ==
    IF Len(words) = 0 THEN <<>>
    ELSE IF Len(words) = 1 THEN words[1]
    ELSE words[1] \o <<" ">> \o Join(Tail(words))

\* ------------------------------------------------------------ processWords
Kerfuffle == <<"k", "e", "r", "f", "u", "f", "f", "l", "e">>
Sharbert == <<"s", "h", "a", "r", "b", "e", "r", "t">>
Fornax == <<"f", "o", "r", "n", "a", "x">>

\* banned := []string{"kerfuffle", "sharbert", "fornax"}
banned == {Kerfuffle, Sharbert, Fornax}

\* A longer mask, as a changed literal would give.
MaskLong == <<"*", "*", "*", "*", "*", "*", "*", "*", "*", "*">>

\* originalWords[i] = "****"
Mask == <<"*", "*", "*", "*">>

hasPunctuation(s) == \E i \in 1..Len(s) : IsPunct(s[i])

\* strings.HasPrefix(word, b), the comparison a prefix match would make.
HasPrefix(word, b) == Len(word) >= Len(b) /\ SubSeq(word, 1, Len(b)) = b

\* A match on the leading letters, with the punctuation test dropped.
isBannedPrefix(word) == \E b \in banned : HasPrefix(word, b)

\* The inner loop: banned == word and the word carries no punctuation.
isBanned(word) == \E b \in banned : b = word /\ ~hasPunctuation(word)

\* Comparison against the original words, without lowercasing.
lowerWordsOfRaw(input) == Split(input)

\* lowerWords := strings.Split(strings.ToLower(input), " ")
lowerWordsOf(input) == Split(ToLower(input))

\* Joining with no separator.
JoinNoSep(words) ==
    LET RECURSIVE cat(_)
        cat(i) == IF i > Len(words) THEN <<>> ELSE words[i] \o cat(i + 1)
    IN cat(1)

\* input = strings.Join(originalWords, " ")
JoinWords(words) == Join(words)

\* processWords(input) returns the joined words and a non-nil error when a
\* word was replaced.
processWords(input) ==
    LET lowerWords == lowerWordsOf(input)
        originalWords == Split(input)
        hit == {i \in 1..Len(lowerWords) : isBanned(lowerWords[i])}
        replaced == [i \in 1..Len(lowerWords) |->
                        IF i \in hit THEN Mask ELSE originalWords[i]]
    IN [out |-> JoinWords(replaced), err |-> hit # {}]

\* ------------------------------------------------------------ chirpHandler
\* A handler that turns the error of processWords into a client error.
chirpResponseStrict(req) ==
    IF ~req.decoded THEN [status |-> 500]
    ELSE IF ByteLen(req.body) > MaxChirpLength
         THEN [status |-> 400, error |-> "Chirp is too long"]
    ELSE LET p == processWords(req.body)
         IN IF p.err THEN [status |-> 400, error |-> "Bad word found in text"]
            ELSE [status |-> 200, cleaned_body |-> p.out]

\* The response chirpHandler writes for a request: 500 when the JSON does
\* not decode, 400 when the body is too long, else 200 with the cleaned
\* body (the error of processWords is discarded).
chirpResponse(req) ==
    IF ~req.decoded THEN [status |-> 500]
    ELSE IF ByteLen(req.body) > MaxChirpLength
         THEN [status |-> 400, error |-> "Chirp is too long"]
    ELSE [status |-> 200, cleaned_body |-> processWords(req.body).out]

\* ------------------------------------------------------------ hit counter
\* atomic.Int32.Store(delta) in place of Add(delta).
StoreInsteadOfAdd(old, delta) == delta

\* atomic.Int32.Add(delta) for delta >= 0: two's complement, 32 bits wide.
Add(old, delta) ==
    IF old > MaxInt32 - delta
    THEN MinInt32 + ((delta - (MaxInt32 - old)) - 1)
    ELSE old + delta

\* The number of increments since the last reset, a natural number that
\* outgrows 32 bits: kept as two digits in base 2^16.
CountBase == 256 * 256
ZeroCount == [hi |-> 0, lo |-> 0]
CountAdd(c, k) ==
    LET lo == c.lo + (k % CountBase)
    IN [hi |-> c.hi + (k \div CountBase) + (lo \div CountBase),
        lo |-> lo % CountBase]
CountOf(n) == [hi |-> n \div CountBase, lo |-> n % CountBase]

\* ------------------------------------------------------------------ inputs
Requests == 1..MaxRequests

KerFuffle == <<"K", "e", "r", "F", "u", "f", "f", "l", "e">>
FORNAX == <<"F", "O", "R", "N", "A", "X">>
KelvinErfuffle == <<"U+212A">> \o Tail(Kerfuffle)

Pieces ==
    {<<" ">>, <<"!">>, <<"a">>, <<"U+00C9">>, Mask,
     Kerfuffle, KerFuffle, Sharbert, FORNAX, KelvinErfuffle}

Flatten(ps) ==
    LET RECURSIVE cat(_)
        cat(i) == IF i > Len(ps) THEN <<>> ELSE ps[i] \o cat(i + 1)
    IN cat(1)

Cores == {Flatten(ps) : ps \in UNION {[1..n -> Pieces] : n \in 0..MaxPieces}}

\* A core is filled up with one rune to a total number of runes around the
\* length limit (or left as it is).
Fills ==
    {[rune |-> "a", total |-> 0],
     [rune |-> "a", total |-> MaxChirpLength],
     [rune |-> "a", total |-> MaxChirpLength + 1],
     [rune |-> "U+00E9", total |-> MaxChirpLength \div 2],
     [rune |-> "U+00E9", total |-> (MaxChirpLength \div 2) + 1]}

Filled(core, fill) ==
    IF fill.total <= Len(core) THEN core
    ELSE core \o [i \in 1..(fill.total - Len(core)) |-> fill.rune]

Bodies == {Filled(core, fill) : core \in Cores, fill \in Fills}

\* What json.Decode makes of a request: an error, or params.Body.
Undecodable == [decoded |-> FALSE]
ChirpRequests == {Undecodable} \cup {[decoded |-> TRUE, body |-> b] : b \in Bodies}

\* The chirps sent while the counter's handlers are explored.
ServerChirpRequests ==
    {Undecodable,
     [decoded |-> TRUE, body |-> KerFuffle \o <<" ">> \o Kerfuffle \o <<"!">>],
     [decoded |-> TRUE, body |-> [i \in 1..(MaxChirpLength + 1) |-> "a"]]}

\* /app/ traffic served back to back, enough to bring the counter next to
\* the end of its range.
BurstSizes == {MaxInt32 - 1}

\* ------------------------------------------------------------------- state
VARIABLES
    fileserverHits, \* apiConfig.fileserverHits
    pc,             \* where each /app/ request is in the middleware
    incs,           \* per /app/ request: calls of fileserverHits.Add made
    served,         \* per /app/ request: the requests handed to next.ServeHTTP
    appStatus,      \* per /app/ request: status written by the file server
    count,          \* getMetricsHandler: count := cfg.fileserverHits.Load()
    resp,           \* the last response of the healthz, metrics or reset route
    sinceReset,     \* increments that took effect since the last Store(0)
    chirpPc,        \* /api/validate_chirp: "idle", "received", "responded"
    chirpReq,       \* the last request of /api/validate_chirp, decoded
    chirpResp       \* and the response written for it

vars == <<fileserverHits, pc, incs, served, appStatus, count, resp,
          sinceReset, chirpPc, chirpReq, chirpResp>>

counterVars == <<fileserverHits, pc, incs, served, appStatus, count, resp,
                 sinceReset>>
appVars == <<pc, incs, served, appStatus>>
chirpVars == <<chirpPc, chirpReq, chirpResp>>

Init ==
    /\ fileserverHits = 0
    /\ pc = [r \in Requests |-> "idle"]
    /\ incs = [r \in Requests |-> 0]
    /\ served = [r \in Requests |-> <<>>]
    /\ appStatus = [r \in Requests |-> 0]
    /\ count = 0
    /\ resp = [route |-> "none", status |-> 0]
    /\ sinceReset = ZeroCount
    /\ chirpPc = "idle"
    /\ chirpReq = Undecodable
    /\ chirpResp = [status |-> 0]

\* The counter as constructed, and one chirp request received.
InitChirp ==
    /\ fileserverHits = 0
    /\ pc = [r \in Requests |-> "idle"]
    /\ incs = [r \in Requests |-> 0]
    /\ served = [r \in Requests |-> <<>>]
    /\ appStatus = [r \in Requests |-> 0]
    /\ count = 0
    /\ resp = [route |-> "none", status |-> 0]
    /\ sinceReset = ZeroCount
    /\ chirpPc = "received"
    /\ chirpReq \in ChirpRequests
    /\ chirpResp = [status |-> 0]

\* ----------------------------------------------------------------- actions
\* mux.Handle("/app/", ...): a request enters the middleware's handler.
AppRequest(r) ==
    /\ pc[r] = "idle"
    /\ pc' = [pc EXCEPT ![r] = "inc"]
    /\ UNCHANGED <<fileserverHits, incs, served, appStatus, count, resp,
                   sinceReset, chirpVars>>

\* The middleware with the increment left out.
middlewareMetricsIncSkipped(r) ==
    /\ pc[r] = "inc"
    /\ pc' = [pc EXCEPT ![r] = "next"]
    /\ UNCHANGED <<fileserverHits, incs, served, appStatus, count, resp,
                   sinceReset, chirpVars>>

\* cfg.fileserverHits.Add(1)
middlewareMetricsInc(r) ==
    /\ pc[r] = "inc"
    /\ fileserverHits' = Add(fileserverHits, 1)
    /\ incs' = [incs EXCEPT ![r] = @ + 1]
    /\ sinceReset' = CountAdd(sinceReset, 1)
    /\ pc' = [pc EXCEPT ![r] = "next"]
    /\ UNCHANGED <<served, appStatus, count, resp, chirpVars>>

\* next.ServeHTTP(w, r)
nextServeHTTP(r) ==
    /\ pc[r] = "next"
    /\ served' = [served EXCEPT ![r] = Append(@, r)]
    /\ pc' = [pc EXCEPT ![r] = "serving"]
    /\ UNCHANGED <<fileserverHits, incs, appStatus, count, resp, sinceReset,
                   chirpVars>>

\* The file server answers (200, or 404 for a file that is not there); a
\* request that never completes stays in "serving".
fileServerReturn(r, st) ==
    /\ pc[r] = "serving"
    /\ appStatus' = [appStatus EXCEPT ![r] = st]
    /\ pc' = [pc EXCEPT ![r] = "done"]
    /\ UNCHANGED <<fileserverHits, incs, served, count, resp, sinceReset,
                   chirpVars>>

readinessHandler ==
    /\ resp' = [route |-> "healthz", status |-> 200]
    /\ UNCHANGED <<fileserverHits, appVars, count, sinceReset, chirpVars>>

getMetricsHandler ==
    /\ count' = fileserverHits
    /\ resp' = [route |-> "metrics", status |-> 200]
    /\ UNCHANGED <<fileserverHits, appVars, sinceReset, chirpVars>>

resetMetricsHandler ==
    /\ fileserverHits' = 0
    /\ sinceReset' = ZeroCount
    /\ resp' = [route |-> "reset", status |-> 200]
    /\ UNCHANGED <<appVars, count, chirpVars>>

\* A POST /api/validate_chirp arrives; decoder.Decode(&params) gives req.
ChirpRequest(req) ==
    /\ chirpPc # "received"
    /\ chirpPc' = "received"
    /\ chirpReq' = req
    /\ chirpResp' = [status |-> 0]
    /\ UNCHANGED counterVars

chirpHandler ==
    /\ chirpPc = "received"
    /\ chirpPc' = "responded"
    /\ chirpResp' = chirpResponse(chirpReq)
    /\ UNCHANGED <<counterVars, chirpReq>>

\* k /app/ requests received and served one after the other.
AppBurst(k) ==
    /\ sinceReset.hi < LoadCap
    /\ fileserverHits' = Add(fileserverHits, k)
    /\ sinceReset' = CountAdd(sinceReset, k)
    /\ UNCHANGED <<appVars, count, resp, chirpVars>>

\* ---------------------------------------------------------- specifications
Next ==
    \/ \E r \in Requests : AppRequest(r)
    \/ \E r \in Requests : middlewareMetricsInc(r)
    \/ \E r \in Requests : nextServeHTTP(r)
    \/ \E r \in Requests, st \in {200, 404} : fileServerReturn(r, st)
    \/ readinessHandler
    \/ getMetricsHandler
    \/ resetMetricsHandler
    \/ \E req \in ServerChirpRequests : ChirpRequest(req)
    \/ chirpHandler

\* The server with its requests interleaved.
Spec == Init /\ [][Next]_vars

NextLoad ==
    \/ Next
    \/ \E k \in BurstSizes : AppBurst(k)

\* The server under sustained /app/ traffic.
SpecLoad == Init /\ [][NextLoad]_vars

NextChirp == chirpHandler

\* The chirp handler alone, over the whole set of bodies.
SpecChirp == InitChirp /\ [][NextChirp]_vars

\* --------------------------------------------------- vocabulary of claims
\* The tokens of a body, read off the positions of its spaces: token k lies
\* between the (k-1)-th and the k-th cut.
SpacesOf(s) == {i \in 1..Len(s) : s[i] = " "}
Cuts(s) == {0} \cup SpacesOf(s) \cup {Len(s) + 1}
Cut(s, k) == CHOOSE b \in Cuts(s) : Cardinality({x \in Cuts(s) : x < b}) = k
TokenCount(s) == Cardinality(SpacesOf(s)) + 1
Token(s, k) == SubSeq(s, Cut(s, k - 1) + 1, Cut(s, k) - 1)

\* The token is a banned term in some letter casing.
BannedInSomeCasing(t) == [i \in 1..Len(t) |-> ToLowerRune(t[i])] \in banned
CarriesPunctuation(t) == \E i \in 1..Len(t) : IsPunct(t[i])
\* The number of characters of a body.
CharCount(s) == Len(s)

Responded == chirpPc = "responded"
Accepted == Responded /\ chirpResp.status = 200
TooLong == [status |-> 400, error |-> "Chirp is too long"]
Resubmitted == chirpResponse([decoded |-> TRUE, body |-> chirpResp.cleaned_body])
InMiddleware(r) == pc[r] \in {"next", "serving"}

\* ------------------------------------------------------------------ claims
\* C1: a decoded body is answered 400 "Chirp is too long" exactly when its
\* character count exceeds 140; a body of 140 characters or fewer is never
\* rejected as too long.
C1_TooLongIffOver140Characters ==
    (Responded /\ chirpReq.decoded) =>
        ((chirpResp = TooLong) <=> (CharCount(chirpReq.body) > MaxChirpLength))

\* C2: for a body whose length is within the limit, the cleaned body has the
\* tokens of the body, in order and in the same number, each token that is a
\* banned term in some letter casing replaced by "****" and every other
\* token unchanged.
C2_RedactsExactlyBannedTokens ==
    (Responded /\ chirpReq.decoded /\ ByteLen(chirpReq.body) <= MaxChirpLength) =>
        /\ chirpResp.status = 200
        /\ TokenCount(chirpResp.cleaned_body) = TokenCount(chirpReq.body)
        /\ \A k \in 1..TokenCount(chirpReq.body) :
              Token(chirpResp.cleaned_body, k) =
                 IF BannedInSomeCasing(Token(chirpReq.body, k))
                 THEN <<"*", "*", "*", "*">>
                 ELSE Token(chirpReq.body, k)

\* A body with a banned term in mixed case that was redacted, next to a
\* token that was kept.
C2_Witness ==
    /\ Accepted
    /\ \E k \in 1..TokenCount(chirpReq.body) :
          /\ BannedInSomeCasing(Token(chirpReq.body, k))
          /\ Token(chirpReq.body, k) \notin banned
          /\ Token(chirpResp.cleaned_body, k) = <<"*", "*", "*", "*">>
    /\ \E k \in 1..TokenCount(chirpReq.body) :
          /\ Token(chirpReq.body, k) # <<>>
          /\ Token(chirpResp.cleaned_body, k) = Token(chirpReq.body, k)

\* C3: a body within the limit none of whose tokens is a banned term comes
\* back character for character, and processWords reports no bad word;
\* runs of spaces are not collapsed.
C3_CleanBodyUnchanged ==
    (/\ Responded /\ chirpReq.decoded
     /\ ByteLen(chirpReq.body) <= MaxChirpLength
     /\ \A k \in 1..TokenCount(chirpReq.body) :
           ~BannedInSomeCasing(Token(chirpReq.body, k))) =>
        /\ chirpResp = [status |-> 200, cleaned_body |-> chirpReq.body]
        /\ ~processWords(chirpReq.body).err

\* A clean body with two spaces in a row and a word, accepted.
C3_Witness ==
    /\ Accepted
    /\ \A k \in 1..TokenCount(chirpReq.body) :
          ~BannedInSomeCasing(Token(chirpReq.body, k))
    /\ \E i \in 1..(Len(chirpReq.body) - 1) :
          chirpReq.body[i] = " " /\ chirpReq.body[i + 1] = " "
    /\ \E i \in 1..Len(chirpReq.body) : chirpReq.body[i] # " "
    /\ chirpResp.cleaned_body = chirpReq.body

\* C4: sending an accepted chirp's cleaned body again is accepted too, gives
\* that same cleaned body, and finds no bad word.
C4_ModerationIdempotent ==
    Accepted =>
        /\ Resubmitted = [status |-> 200, cleaned_body |-> chirpResp.cleaned_body]
        /\ ~processWords(chirpResp.cleaned_body).err

\* A body of exactly the limit's length in which a word was redacted.
C4_Witness ==
    /\ Accepted
    /\ ByteLen(chirpReq.body) = MaxChirpLength
    /\ chirpResp.cleaned_body # chirpReq.body
    /\ Resubmitted.status = 200

\* C5: a token that carries a punctuation character is never redacted and
\* never raises the bad-word signal: the signal is raised only by a token
\* without punctuation.
C5_PunctuatedTokenKept ==
    Accepted =>
        /\ TokenCount(chirpResp.cleaned_body) = TokenCount(chirpReq.body)
        /\ \A k \in 1..TokenCount(chirpReq.body) :
              CarriesPunctuation(Token(chirpReq.body, k)) =>
                 Token(chirpResp.cleaned_body, k) = Token(chirpReq.body, k)
        /\ processWords(chirpReq.body).err =>
              \E k \in 1..TokenCount(chirpReq.body) :
                  /\ ~CarriesPunctuation(Token(chirpReq.body, k))
                  /\ BannedInSomeCasing(Token(chirpReq.body, k))

\* The body "kerfuffle!" (in some casing), accepted and returned as sent.
C5_Witness ==
    /\ Accepted
    /\ \E t \in banned :
          [i \in 1..Len(chirpReq.body) |-> ToLowerRune(chirpReq.body[i])]
             = t \o <<"!">>
    /\ chirpResp.cleaned_body = chirpReq.body
    /\ ~processWords(chirpReq.body).err

\* C6: a decoded body within the limit is answered 200 with the cleaned
\* body whether or not a word was redacted; the only other answers are 400
\* for a body over the limit and 500 for a request that does not decode.
C6_BadWordIsNotAFailure ==
    Responded =>
        /\ (chirpReq.decoded /\ ByteLen(chirpReq.body) <= MaxChirpLength) =>
              /\ chirpResp.status = 200
              /\ chirpResp.cleaned_body = processWords(chirpReq.body).out
        /\ chirpResp.status # 200 =>
              \/ ~chirpReq.decoded /\ chirpResp.status = 500
              \/ /\ chirpReq.decoded
                 /\ ByteLen(chirpReq.body) > MaxChirpLength
                 /\ chirpResp.status = 400

\* A chirp for which processWords returned its error, answered 200.
C6_Witness ==
    /\ Accepted
    /\ processWords(chirpReq.body).err
    /\ chirpResp.cleaned_body # chirpReq.body

\* C7: whenever the metrics handler loads the counter, it reads exactly the
\* number of increments made since the last reset (or since the start), in
\* whatever order the concurrent requests took their steps.
C7_NoIncrementLost ==
    [][getMetricsHandler => (count' >= 0 /\ CountOf(count') = sinceReset)]_vars

\* Two requests inside the middleware at the same time, both counted, and
\* the metrics handler having read 2 or more.
C7_Witness ==
    /\ resp.route = "metrics"
    /\ count >= 2
    /\ count = fileserverHits
    /\ \E r1, r2 \in Requests : r1 # r2 /\ InMiddleware(r1) /\ InMiddleware(r2)

\* C8: a request through the middleware increments the counter exactly
\* once, before the wrapped handler is called, and the wrapped handler is
\* called exactly once with that same request; the increment stands whether
\* the wrapped handler succeeds, fails or never returns.
C8_IncrementOnceBeforeDelegation ==
    \A r \in Requests :
        /\ incs[r] <= 1
        /\ Len(served[r]) <= 1
        /\ pc[r] \in {"idle", "inc"} => (incs[r] = 0 /\ served[r] = <<>>)
        /\ pc[r] = "next" => (incs[r] = 1 /\ served[r] = <<>>)
        /\ pc[r] \in {"serving", "done"} => (incs[r] = 1 /\ served[r] = <<r>>)

\* One request answered 404 by the file server and another still being
\* served, both counted.
C8_Witness ==
    /\ fileserverHits = 2
    /\ \E r1, r2 \in Requests :
          /\ pc[r1] = "done" /\ appStatus[r1] = 404 /\ incs[r1] = 1
          /\ pc[r2] = "serving" /\ incs[r2] = 1

\* C9: the counter never decreases except by a reset, and each increment
\* raises it by exactly one.
C9_CounterMonotonic ==
    [][/\ ~resetMetricsHandler => fileserverHits' >= fileserverHits
       /\ \A r \in Requests :
             middlewareMetricsInc(r) =>
                (fileserverHits' > fileserverHits
                 /\ fileserverHits' - fileserverHits = 1)]_vars

\* C10: the counter always equals the number of increments that took effect
\* since the most recent reset.
C10_CounterEqualsIncrementsSinceReset ==
    fileserverHits >= 0 /\ CountOf(fileserverHits) = sinceReset

====
